---- MODULE Spec2Model ----
(***************************************************************************)
(* Model of the tracking-and-dispatch core of src/main.py: the identity    *)
(* tracker (TrackedFace, update_tracked_faces), the greeting scheduler     *)
(* (process_frame, speak) and the per-day encounter ledger                 *)
(* (load_face_counts, save_face_counts, the rollover check of run).        *)
(*                                                                         *)
(* Times are whole seconds of time.time(); dates are day numbers standing  *)
(* for the YYYYMMDD strings; the id "face_N" is the number N.              *)
(***************************************************************************)
EXTENDS Integers, Sequences, FiniteSets, TLC

VARIABLES
    pc,                         \* position of the process: "check_date", "capture", "greet", "stopped"
    idx,                        \* position of `for face in self.tracked_faces` in process_frame
    current_time,               \* local of process_frame (main.py:539)
    global_cooldown_active,     \* local of process_frame (main.py:542)
    tracked_faces,              \* self.tracked_faces
    next_id,                    \* TrackedFace.next_id
    last_global_greeting_time,  \* self.last_global_greeting_time
    today,                      \* self.today
    face_greeting_counts,       \* self.face_greeting_counts
    daily_greeting_count,       \* self.daily_greeting_count
    use_sequential_greetings,   \* self.use_sequential_greetings
    stats_files,                \* data/stats/stats_<day>.json, one per day
    busy,                       \* pygame.mixer.music.get_busy()
    clock,                      \* time.time()
    date,                       \* datetime.datetime.now().strftime("%Y%m%d")
    matched_indices,            \* local of update_tracked_faces, as the call in this frame left it
    dropped,                    \* faces the update_tracked_faces call of this frame filtered out
    fired,                      \* ids greeted so far in the current process_frame call
    speak_result,               \* outcome of the last speak call of this frame
    greeted_at,                 \* history: id -> frame time of its last fired greeting
    last_fire_time,             \* history: time.time() of the last fired greeting, -1 if none
    ids_assigned,               \* history: ids given out by TrackedFace.__init__ in this process
    restarts,                   \* history: number of process starts after the first
    photos,                     \* the save_face_photo calls of this frame: id and whether the photo was saved
    dropped_ids,                \* history: ids of the faces filtered out for staleness in this process
    stop_cause,                 \* why the loop of run ended, "none" while it runs
    detected,                   \* local of process_frame: the faces of this frame (main.py:524)
    use_custom_greeting,        \* self.use_custom_greeting
    greeting_files,             \* keys of self.greeting_files: the encounter numbers with a clip of their own
    files_present,              \* which of the default and custom clip files exist (os.path.exists)
    played                      \* the clip the last fired greeting of this frame loaded and played

vars == <<pc, idx, current_time, global_cooldown_active, tracked_faces, next_id,
          last_global_greeting_time, today, face_greeting_counts,
          daily_greeting_count, use_sequential_greetings, stats_files, busy,
          clock, date, matched_indices, dropped, fired, speak_result,
          greeted_at, last_fire_time, ids_assigned, restarts, photos,
          dropped_ids, stop_cause, detected, use_custom_greeting,
          greeting_files, files_present, played>>

----------------------------------------------------------------------------
(* Bounds of the model *)

StartTime == 10
MaxTime == 21
MaxDay == 2
MaxId == 3
MaxDet == 2
MaxRestarts == 1
MaxEncounter == 2
\* in LiveSpec a count of CountCap stands for CountCap or more
CountCap == 2

(* Program constants *)

max_missing_frames == 10
same_face_threshold == 100
greeting_cooldown == 10
global_greeting_cooldown == 3
size_weight == 100

Days == 1..MaxDay

----------------------------------------------------------------------------
(* Helpers *)

Max(a, b) == IF a >= b THEN a ELSE b

Abs(a) == IF a >= 0 THEN a ELSE -a

RECURSIVE GCD(_, _)
GCD(a, b) == IF b = 0 THEN a ELSE GCD(b, a % b)

RECURSIVE SumOver(_, _)
SumOver(f, S) ==
    IF S = {} THEN 0
    ELSE LET k == CHOOSE k \in S : TRUE IN f[k] + SumOver(f, S \ {k})

\* sum(d.values()) of a dict d
SumValues(f) == SumOver(f, DOMAIN f)

EmptyDict == [k \in {} |-> 0]

\* an increment that adds one to every key
Increment_all(f, key) ==
    [k \in (DOMAIN f) \cup {key} |->
        (IF k \in DOMAIN f THEN f[k] ELSE 0) + 1]

\* d[key] += 1 on a defaultdict(int)
Increment(f, key) ==
    [k \in (DOMAIN f) \cup {key} |->
        IF k = key THEN (IF key \in DOMAIN f THEN f[key] ELSE 0) + 1 ELSE f[k]]

\* d.get(key, 0)
Get(f, key) == IF key \in DOMAIN f THEN f[key] ELSE 0

----------------------------------------------------------------------------
(* TrackedFace *)

\* Rectangles the detector reports (minSize is 30x30): three on a line, 60
\* pixels apart, so that the middle one is within the threshold of both others.
Rects ==
    { [x |-> 0,   y |-> 0, w |-> 50, h |-> 50],
      [x |-> 60,  y |-> 0, w |-> 50, h |-> 50],
      [x |-> 120, y |-> 0, w |-> 50, h |-> 50] }

\* an update that also clears the face's greeting time
update_position_reset(face, r) ==
    [face EXCEPT !.x = r.x, !.y = r.y, !.w = r.w, !.h = r.h,
                 !.centerX = r.x + (r.w \div 2),
                 !.centerY = r.y + (r.h \div 2),
                 !.frames_missing = 0,
                 !.last_greeting_time = 0]

update_position(face, r) ==
    [face EXCEPT !.x = r.x, !.y = r.y, !.w = r.w, !.h = r.h,
                 !.centerX = r.x + (r.w \div 2),
                 !.centerY = r.y + (r.h \div 2),
                 !.frames_missing = 0]

NewTrackedFace(r, nid) ==
    [id |-> nid, x |-> r.x, y |-> r.y, w |-> r.w, h |-> r.h,
     centerX |-> r.x + (r.w \div 2), centerY |-> r.y + (r.h \div 2),
     frames_missing |-> 0, last_greeting_time |-> 0, encounter_count |-> 0]

\* distance_to(face, r) < threshold, in exact integer arithmetic.
\* distance_to is sqrt(d2) + 100 * diff / m with d2 the squared distance of
\* the centres, diff the absolute area difference and m the larger area, so
\*   sqrt(d2) + 100*diff/m < T  <=>  T*m - 100*diff > 0  /\  d2*m^2 < (T*m - 100*diff)^2
\* and the common factor of m and T*m - 100*diff is divided out to keep the
\* products small.
distance_below(face, r, threshold) ==
    LET ocx  == r.x + (r.w \div 2)
        ocy  == r.y + (r.h \div 2)
        d2   == (face.centerX - ocx) * (face.centerX - ocx)
                + (face.centerY - ocy) * (face.centerY - ocy)
        a1   == face.w * face.h
        a2   == r.w * r.h
        m    == Max(a1, a2)
        diff == Abs(a1 - a2)
        n    == threshold * m - size_weight * diff
        g    == GCD(m, Abs(n))
        mr   == m \div g
        nr   == n \div g
    IN  n > 0 /\ d2 * mr * mr < nr * nr

----------------------------------------------------------------------------
(* update_tracked_faces *)

AgeAll(faces) ==
    [i \in 1..Len(faces) |->
        [faces[i] EXCEPT !.frames_missing = faces[i].frames_missing + 1]]

\* a scan that takes the face whose centre is nearest among those under the
\* threshold
FirstMatch_nearest(faces, r) ==
    LET hits == {i \in 1..Len(faces) :
                    distance_below(faces[i], r, same_face_threshold)}
        d2(i) == (faces[i].centerX - (r.x + (r.w \div 2)))
                     * (faces[i].centerX - (r.x + (r.w \div 2)))
                 + (faces[i].centerY - (r.y + (r.h \div 2)))
                     * (faces[i].centerY - (r.y + (r.h \div 2)))
    IN  IF hits = {} THEN 0
        ELSE CHOOSE i \in hits :
                 \A j \in hits : d2(i) < d2(j) \/ (d2(i) = d2(j) /\ i <= j)

\* the index at which `for i, face in enumerate(self.tracked_faces)` breaks,
\* 0 when the scan ends without a match
FirstMatch(faces, r) ==
    LET hits == {i \in 1..Len(faces) :
                    distance_below(faces[i], r, same_face_threshold)}
    IN  IF hits = {} THEN 0 ELSE CHOOSE i \in hits : \A j \in hits : i <= j

\* self.save_face_photo(frame, new_face) was called for the face with id nid
\* before the rest of the detections gave `rest`
Photographed(nid, rest) == [rest EXCEPT !.photographed = <<nid>> \o @]

\* the loop that photographs the face of a matched detection too
RECURSIVE MatchDetections_photoall(_, _, _, _)
MatchDetections_photoall(faces, nid, mi, dets) ==
    IF dets = <<>> THEN [faces |-> faces, next_id |-> nid, matched_indices |-> mi,
                         photographed |-> <<>>]
    ELSE LET r == Head(dets)
             i == FirstMatch(faces, r)
         IN  IF i # 0
             THEN Photographed(faces[i].id,
                      MatchDetections_photoall(
                          [faces EXCEPT ![i] = update_position(faces[i], r)],
                          nid, Append(mi, i), Tail(dets)))
             ELSE Photographed(nid,
                      MatchDetections_photoall(Append(faces, NewTrackedFace(r, nid)),
                                               nid + 1, mi, Tail(dets)))

\* the loop without `matched = True`: a matched detection is added as a new
\* face as well
RECURSIVE MatchDetections_unflagged(_, _, _, _)
MatchDetections_unflagged(faces, nid, mi, dets) ==
    IF dets = <<>> THEN [faces |-> faces, next_id |-> nid, matched_indices |-> mi,
                         photographed |-> <<>>]
    ELSE LET r == Head(dets)
             i == FirstMatch(faces, r)
         IN  IF i # 0
             THEN Photographed(nid,
                      MatchDetections_unflagged(
                          Append([faces EXCEPT ![i] = update_position(faces[i], r)],
                                 NewTrackedFace(r, nid)),
                          nid + 1, Append(mi, i), Tail(dets)))
             ELSE Photographed(nid,
                      MatchDetections_unflagged(Append(faces, NewTrackedFace(r, nid)),
                                                nid + 1, mi, Tail(dets)))

\* the loop `for x, y, w, h in detected_faces`
RECURSIVE MatchDetections(_, _, _, _)
MatchDetections(faces, nid, mi, dets) ==
    IF dets = <<>> THEN [faces |-> faces, next_id |-> nid, matched_indices |-> mi,
                         photographed |-> <<>>]
    ELSE LET r == Head(dets)
             i == FirstMatch(faces, r)
         IN  IF i # 0
             THEN MatchDetections([faces EXCEPT ![i] = update_position(faces[i], r)],
                                  nid, Append(mi, i), Tail(dets))
             ELSE Photographed(nid,
                      MatchDetections(Append(faces, NewTrackedFace(r, nid)),
                                      nid + 1, mi, Tail(dets)))

StillSeen(face) == face.frames_missing < max_missing_frames

update_tracked_faces(faces, nid, dets) ==
    LET m == MatchDetections(AgeAll(faces), nid, <<>>, dets)
    IN  [faces           |-> SelectSeq(m.faces, StillSeen),
         next_id         |-> m.next_id,
         matched_indices |-> m.matched_indices,
         photographed    |-> m.photographed,
         dropped         |-> {[id |-> m.faces[i].id,
                               frames_missing |-> m.faces[i].frames_missing] :
                                  i \in {j \in 1..Len(m.faces) : ~StillSeen(m.faces[j])}}]

Detections == UNION {[1..n -> Rects] : n \in 0..MaxDet}

----------------------------------------------------------------------------
(* Clips *)

\* self.default_greeting_file and self.custom_greeting_file
default_greeting_file == "data/custom/default_greeting.wav"
custom_greeting_file == "data/custom/my_greeting.wav"

ClipFiles == {default_greeting_file, custom_greeting_file}

\* what pygame.mixer.music.load is given: the clip of an encounter number
\* (data/custom/greetings/greeting_<n>.wav), the default clip, the custom
\* clip, or the hello_<language>.wav of a language drawn with random.choice
\* (which language it is plays no part in the model)
NoClip == [kind |-> "none", n |-> 0]
EncounterClip(n) == [kind |-> "encounter", n |-> n]
DefaultClip == [kind |-> "default", n |-> 0]
CustomClip == [kind |-> "custom", n |-> 0]
LanguageClip == [kind |-> "language", n |-> 0]

\* a selection that prefers the default clip to the clip of the encounter
SelectClip_defaultfirst(sequential, custom, registered, present, n) ==
    IF sequential
    THEN IF default_greeting_file \in present THEN DefaultClip
         ELSE IF n \in registered THEN EncounterClip(n)
         ELSE LanguageClip
    ELSE IF custom /\ custom_greeting_file \in present THEN CustomClip
         ELSE LanguageClip

\* a selection that never plays the custom clip
SelectClip_nocustom(sequential, custom, registered, present, n) ==
    IF sequential
    THEN IF n \in registered THEN EncounterClip(n)
         ELSE IF default_greeting_file \in present THEN DefaultClip
         ELSE LanguageClip
    ELSE LanguageClip

\* the clip speak loads (main.py:391-427)
SelectClip(sequential, custom, registered, present, n) ==
    IF sequential
    THEN IF n \in registered THEN EncounterClip(n)
         ELSE IF default_greeting_file \in present THEN DefaultClip
         ELSE LanguageClip
    ELSE IF custom /\ custom_greeting_file \in present THEN CustomClip
         ELSE LanguageClip

----------------------------------------------------------------------------
(* Ledger *)

Absent == [kind |-> "absent"]
Corrupt == [kind |-> "corrupt"]
Record(total, counts) ==
    [kind |-> "record", greeting_count |-> total, face_counts |-> counts]

\* a load that does not read the record
load_face_counts_none(files, day) == EmptyDict

\* a load that falls back on the day before when the day has no record
load_face_counts_stale(files, day) ==
    IF files[day].kind = "record" THEN files[day].face_counts
    ELSE IF day > 1 /\ files[day - 1].kind = "record"
         THEN files[day - 1].face_counts
         ELSE EmptyDict

load_face_counts(files, day) ==
    IF files[day].kind = "record" THEN files[day].face_counts ELSE EmptyDict

\* what open(stats_file, 'w') followed by json.dump leaves on disk:
\*   "ok"        the new record
\*   "unopened"  open() raised, the file is as before
\*   "truncated" open() truncated the file and the write did not complete
SaveOutcomes == {"ok", "unopened", "truncated"}

\* the record written with the number of faces for the total
save_face_counts_faces(files, day, total, counts, outcome) ==
    CASE outcome = "ok"        -> [files EXCEPT ![day] = Record(Cardinality(DOMAIN counts), counts)]
      [] outcome = "unopened"  -> files
      [] outcome = "truncated" -> [files EXCEPT ![day] = Corrupt]

save_face_counts(files, day, total, counts, outcome) ==
    CASE outcome = "ok"        -> [files EXCEPT ![day] = Record(total, counts)]
      [] outcome = "unopened"  -> files
      [] outcome = "truncated" -> [files EXCEPT ![day] = Corrupt]

----------------------------------------------------------------------------
(* The process *)

Construct ==
    /\ pc' = "check_date"
    /\ idx' = 0
    /\ current_time' = 0
    /\ global_cooldown_active' = FALSE
    /\ tracked_faces' = <<>>
    /\ next_id' = 1
    /\ last_global_greeting_time' = 0
    /\ today' = date
    /\ face_greeting_counts' = load_face_counts(stats_files, date)
    /\ daily_greeting_count' = SumValues(load_face_counts(stats_files, date))
    /\ busy' = FALSE
    /\ matched_indices' = <<>>
    /\ dropped' = {}
    /\ fired' = <<>>
    /\ speak_result' = "none"
    /\ played' = NoClip
    /\ greeted_at' = EmptyDict
    /\ last_fire_time' = -1
    /\ ids_assigned' = {}
    /\ photos' = <<>>
    /\ dropped_ids' = {}
    /\ stop_cause' = "none"
    /\ detected' = <<>>

\* the state __init__ leaves, whatever the options and the clips on disk
Started ==
    /\ pc = "check_date"
    /\ idx = 0
    /\ current_time = 0
    /\ global_cooldown_active = FALSE
    /\ tracked_faces = <<>>
    /\ next_id = 1
    /\ last_global_greeting_time = 0
    /\ today = 1
    /\ face_greeting_counts = EmptyDict
    /\ daily_greeting_count = 0
    /\ use_sequential_greetings \in BOOLEAN
    /\ stats_files = [d \in Days |-> Absent]
    /\ busy = FALSE
    /\ clock = StartTime
    /\ date = 1
    /\ matched_indices = <<>>
    /\ dropped = {}
    /\ fired = <<>>
    /\ speak_result = "none"
    /\ greeted_at = EmptyDict
    /\ last_fire_time = -1
    /\ ids_assigned = {}
    /\ restarts = 0
    /\ photos = <<>>
    /\ dropped_ids = {}
    /\ stop_cause = "none"
    /\ detected = <<>>
    /\ played = NoClip

\* started without the custom option and with no clip recorded under
\* data/custom: every greeting is a language clip (ClipInit draws the other
\* cases)
Init ==
    /\ Started
    /\ use_custom_greeting = FALSE
    /\ greeting_files = {}
    /\ files_present = {}

\* the date check without `self.today = current_date`
CheckDate_keepsday ==
    /\ pc = "check_date"
    /\ pc' = "capture"
    /\ IF date # today
       THEN \E outcome \in SaveOutcomes :
            /\ today' = today
            /\ face_greeting_counts' = EmptyDict
            /\ daily_greeting_count' = 0
            /\ next_id' = 1
            /\ tracked_faces' = <<>>
            /\ stats_files' = save_face_counts(stats_files, today, 0, EmptyDict, outcome)
            /\ greeted_at' = EmptyDict
       ELSE UNCHANGED <<today, face_greeting_counts, daily_greeting_count,
                        next_id, tracked_faces, stats_files, greeted_at>>
    /\ UNCHANGED <<idx, current_time, global_cooldown_active,
                   last_global_greeting_time, use_sequential_greetings, busy,
                   clock, date, matched_indices, dropped, fired, speak_result,
                   last_fire_time, ids_assigned, restarts,
                   photos, dropped_ids, stop_cause,
                   detected,
                   use_custom_greeting, greeting_files, files_present, played>>

\* the date check without `self.tracked_faces = []`
CheckDate_keepsfaces ==
    /\ pc = "check_date"
    /\ pc' = "capture"
    /\ IF date # today
       THEN \E outcome \in SaveOutcomes :
            /\ today' = date
            /\ face_greeting_counts' = EmptyDict
            /\ daily_greeting_count' = 0
            /\ next_id' = 1
            /\ tracked_faces' = tracked_faces
            /\ stats_files' = save_face_counts(stats_files, date, 0, EmptyDict, outcome)
            /\ greeted_at' = EmptyDict
       ELSE UNCHANGED <<today, face_greeting_counts, daily_greeting_count,
                        next_id, tracked_faces, stats_files, greeted_at>>
    /\ UNCHANGED <<idx, current_time, global_cooldown_active,
                   last_global_greeting_time, use_sequential_greetings, busy,
                   clock, date, matched_indices, dropped, fired, speak_result,
                   last_fire_time, ids_assigned, restarts,
                   photos, dropped_ids, stop_cause,
                   detected,
                   use_custom_greeting, greeting_files, files_present, played>>

\* run, top of the loop: the date check
CheckDate ==
    /\ pc = "check_date"
    /\ pc' = "capture"
    /\ IF date # today
       THEN \E outcome \in SaveOutcomes :
            /\ today' = date
            /\ face_greeting_counts' = EmptyDict
            /\ daily_greeting_count' = 0
            /\ next_id' = 1
            /\ tracked_faces' = <<>>
            /\ stats_files' = save_face_counts(stats_files, date, 0, EmptyDict, outcome)
            /\ greeted_at' = EmptyDict
       ELSE UNCHANGED <<today, face_greeting_counts, daily_greeting_count,
                        next_id, tracked_faces, stats_files, greeted_at>>
    /\ UNCHANGED <<idx, current_time, global_cooldown_active,
                   last_global_greeting_time, use_sequential_greetings, busy,
                   clock, date, matched_indices, dropped, fired, speak_result,
                   last_fire_time, ids_assigned, restarts,
                   photos, dropped_ids, stop_cause,
                   detected,
                   use_custom_greeting, greeting_files, files_present, played>>

global_cooldown_late(now, last) == (now - last) <= global_greeting_cooldown

\* main.py:542
global_cooldown(now, last) == (now - last) < global_greeting_cooldown

\* the call with the detections taken in either order, as if they were kept
\* in a set
TrackerUpdate_anyorder(dets) ==
    \E d2 \in {dets, [i \in 1..Len(dets) |-> dets[Len(dets) + 1 - i]]} :
    LET u == update_tracked_faces(tracked_faces, next_id, d2)
    IN  /\ u.next_id <= MaxId + 1
        /\ tracked_faces' = u.faces
        /\ next_id' = u.next_id
        /\ matched_indices' = u.matched_indices
        /\ dropped' = u.dropped
        /\ detected' = dets
        /\ dropped_ids' = dropped_ids \cup {d.id : d \in u.dropped}
        /\ \E saved \in [1..Len(u.photographed) -> BOOLEAN] :
               photos' = [i \in 1..Len(u.photographed) |->
                             [id |-> u.photographed[i], saved |-> saved[i]]]
        /\ ids_assigned' = ids_assigned \cup (next_id..(u.next_id - 1))

\* the call self.update_tracked_faces(faces, frame)
TrackerUpdate(dets) ==
    LET u == update_tracked_faces(tracked_faces, next_id, dets)
    IN  /\ u.next_id <= MaxId + 1
        /\ tracked_faces' = u.faces
        /\ next_id' = u.next_id
        /\ matched_indices' = u.matched_indices
        /\ dropped' = u.dropped
        /\ detected' = dets
        /\ dropped_ids' = dropped_ids \cup {d.id : d \in u.dropped}
        /\ \E saved \in [1..Len(u.photographed) -> BOOLEAN] :
               photos' = [i \in 1..Len(u.photographed) |->
                             [id |-> u.photographed[i], saved |-> saved[i]]]
        /\ ids_assigned' = ids_assigned \cup (next_id..(u.next_id - 1))

\* process_frame up to the loop over the tracked faces
ProcessFrame(dets) ==
    /\ pc = "capture"
    /\ IF dets = <<>>
       THEN /\ pc' = "check_date"
            /\ UNCHANGED <<idx, current_time, global_cooldown_active,
                           tracked_faces, next_id, matched_indices, dropped,
                           fired, speak_result, ids_assigned,
                           photos, dropped_ids,
                           detected,
                           played>>
       ELSE /\ TrackerUpdate(dets)
            /\ current_time' = clock
            /\ global_cooldown_active' = global_cooldown(clock, last_global_greeting_time)
            /\ fired' = <<>>
            /\ speak_result' = "none"
            /\ played' = NoClip
            /\ idx' = 1
            /\ pc' = "greet"
    /\ UNCHANGED <<last_global_greeting_time, today, face_greeting_counts,
                   daily_greeting_count, use_sequential_greetings, stats_files,
                   busy, clock, date, greeted_at, last_fire_time, restarts,
                   stop_cause,
                   use_custom_greeting, greeting_files, files_present>>

cooldown_active_late(face) ==
    (current_time - face.last_greeting_time) <= greeting_cooldown

\* main.py:576
cooldown_active(face) ==
    (current_time - face.last_greeting_time) < greeting_cooldown

\* the test of line 583 alone, without the skip of lines 555-556
Greetable_missing(face) ==
    /\ ~cooldown_active(face)
    /\ ~global_cooldown_active

Greetable(face) ==
    /\ face.frames_missing = 0
    /\ ~cooldown_active(face)
    /\ ~global_cooldown_active

InLoop == pc = "greet" /\ idx <= Len(tracked_faces)

\* a loop that may pass any face without attempting a greeting
SkipFace_any ==
    /\ InLoop
    /\ idx' = idx + 1
    /\ UNCHANGED <<pc, current_time, global_cooldown_active, tracked_faces,
                   next_id, last_global_greeting_time, today,
                   face_greeting_counts, daily_greeting_count,
                   use_sequential_greetings, stats_files, busy, clock, date,
                   matched_indices, dropped, fired, speak_result, greeted_at,
                   last_fire_time, ids_assigned, restarts,
                   photos, dropped_ids, stop_cause,
                   detected,
                   use_custom_greeting, greeting_files, files_present, played>>

\* one iteration of the loop for a face that is not greeted
SkipFace ==
    /\ InLoop
    /\ ~Greetable(tracked_faces[idx])
    /\ idx' = idx + 1
    /\ UNCHANGED <<pc, current_time, global_cooldown_active, tracked_faces,
                   next_id, last_global_greeting_time, today,
                   face_greeting_counts, daily_greeting_count,
                   use_sequential_greetings, stats_files, busy, clock, date,
                   matched_indices, dropped, fired, speak_result, greeted_at,
                   last_fire_time, ids_assigned, restarts,
                   photos, dropped_ids, stop_cause,
                   detected,
                   use_custom_greeting, greeting_files, files_present, played>>

\* face.encounter_count += 1 in sequential mode
Counted(face) ==
    IF use_sequential_greetings
    THEN [face EXCEPT !.encounter_count = face.encounter_count + 1]
    ELSE face

\* the clip speak plays for a face, called with face.encounter_count in
\* sequential mode (main.py:591) and without it otherwise (main.py:608)
ClipPlayed(face) ==
    SelectClip(use_sequential_greetings, use_custom_greeting, greeting_files,
               files_present,
               IF use_sequential_greetings THEN face.encounter_count ELSE 0)

\* speak stamping the global cooldown before it looks at the mixer
SpeakNotFired_stamped(result) ==
    /\ InLoop
    /\ Greetable(tracked_faces[idx])
    /\ Counted(tracked_faces[idx]).encounter_count <= MaxEncounter
    /\ \/ result = "busy" /\ busy
       \/ result = "error" /\ ~busy
    /\ tracked_faces' = [tracked_faces EXCEPT ![idx] = Counted(tracked_faces[idx])]
    /\ last_global_greeting_time' = clock
    /\ speak_result' = result
    /\ played' = played
    /\ idx' = idx + 1
    /\ UNCHANGED <<pc, current_time, global_cooldown_active, next_id,
                   today, face_greeting_counts,
                   daily_greeting_count, use_sequential_greetings, stats_files,
                   busy, clock, date, matched_indices, dropped, fired,
                   greeted_at, last_fire_time, ids_assigned, restarts,
                   photos, dropped_ids, stop_cause,
                   detected,
                   use_custom_greeting, greeting_files, files_present>>

\* speak counting the greeting before the clip is loaded, so that a failed
\* load leaves the count behind
SpeakNotFired_counted(result) ==
    /\ InLoop
    /\ Greetable(tracked_faces[idx])
    /\ Counted(tracked_faces[idx]).encounter_count <= MaxEncounter
    /\ \/ result = "busy" /\ busy
       \/ result = "error" /\ ~busy
    /\ tracked_faces' = [tracked_faces EXCEPT ![idx] = Counted(tracked_faces[idx])]
    /\ IF result = "error"
       THEN LET c == Increment(face_greeting_counts, tracked_faces[idx].id)
            IN  /\ face_greeting_counts' = c
                /\ daily_greeting_count' = SumValues(c)
       ELSE UNCHANGED <<face_greeting_counts, daily_greeting_count>>
    /\ speak_result' = result
    /\ played' = played
    /\ idx' = idx + 1
    /\ UNCHANGED <<pc, current_time, global_cooldown_active, next_id,
                   last_global_greeting_time, today, use_sequential_greetings,
                   stats_files, busy, clock, date, matched_indices, dropped,
                   fired, greeted_at, last_fire_time, ids_assigned, restarts,
                   photos, dropped_ids, stop_cause,
                   detected,
                   use_custom_greeting, greeting_files, files_present>>

\* one iteration of the loop where speak returns False
\* (music is playing, or loading or starting the clip raised)
SpeakNotFired(result) ==
    /\ InLoop
    /\ Greetable(tracked_faces[idx])
    /\ Counted(tracked_faces[idx]).encounter_count <= MaxEncounter
    /\ \/ result = "busy" /\ busy
       \/ result = "error" /\ ~busy
    /\ tracked_faces' = [tracked_faces EXCEPT ![idx] = Counted(tracked_faces[idx])]
    /\ speak_result' = result
    /\ played' = played
    /\ idx' = idx + 1
    /\ UNCHANGED <<pc, current_time, global_cooldown_active, next_id,
                   last_global_greeting_time, today, face_greeting_counts,
                   daily_greeting_count, use_sequential_greetings, stats_files,
                   busy, clock, date, matched_indices, dropped, fired,
                   greeted_at, last_fire_time, ids_assigned, restarts,
                   photos, dropped_ids, stop_cause,
                   detected,
                   use_custom_greeting, greeting_files, files_present>>

\* the total left as it was before the increment
CountGreeting_stale(counts, face_id) ==
    LET c == Increment(counts, face_id)
    IN  [face_greeting_counts |-> c, daily_greeting_count |-> SumValues(counts)]

\* what a fired greeting does to the ledger in memory (main.py:434-437)
CountGreeting(counts, face_id) ==
    LET c == Increment(counts, face_id)
    IN  [face_greeting_counts |-> c, daily_greeting_count |-> SumValues(c)]

\* speak with a save that lets its exception out: the except clause of speak
\* returns False after the clip has started and the count has been taken
SpeakFired_fatal(outcome) ==
    /\ InLoop
    /\ Greetable(tracked_faces[idx])
    /\ Counted(tracked_faces[idx]).encounter_count <= MaxEncounter
    /\ ~busy
    /\ LET face == Counted(tracked_faces[idx])
           led  == CountGreeting(face_greeting_counts, face.id)
       IN  /\ busy' = TRUE
           /\ last_global_greeting_time' = clock
           /\ face_greeting_counts' = led.face_greeting_counts
           /\ daily_greeting_count' = led.daily_greeting_count
           /\ stats_files' = save_face_counts(stats_files, today,
                                              led.daily_greeting_count,
                                              led.face_greeting_counts, outcome)
           /\ IF outcome = "ok"
              THEN /\ tracked_faces' = [tracked_faces EXCEPT ![idx] =
                                   [face EXCEPT !.last_greeting_time = current_time]]
                   /\ fired' = Append(fired, face.id)
                   /\ greeted_at' = [k \in (DOMAIN greeted_at) \cup {face.id} |->
                                IF k = face.id THEN current_time ELSE greeted_at[k]]
                   /\ last_fire_time' = clock
                   /\ speak_result' = "fired"
                   /\ played' = ClipPlayed(Counted(tracked_faces[idx]))
              ELSE /\ tracked_faces' = [tracked_faces EXCEPT ![idx] = face]
                   /\ speak_result' = "error"
                   /\ played' = played
                   /\ UNCHANGED <<fired, greeted_at, last_fire_time>>
    /\ idx' = idx + 1
    /\ UNCHANGED <<pc, current_time, global_cooldown_active, next_id, today,
                   use_sequential_greetings, clock, date, matched_indices,
                   dropped, ids_assigned, restarts,
                   photos, dropped_ids, stop_cause,
                   detected,
                   use_custom_greeting, greeting_files, files_present>>

\* speak without the get_busy check: a clip is loaded and played over the
\* one that is playing
SpeakFired_unchecked(outcome) ==
    /\ InLoop
    /\ Greetable(tracked_faces[idx])
    /\ Counted(tracked_faces[idx]).encounter_count <= MaxEncounter
    /\ LET face == Counted(tracked_faces[idx])
           led  == CountGreeting(face_greeting_counts, face.id)
       IN  /\ busy' = TRUE
           /\ last_global_greeting_time' = clock
           /\ face_greeting_counts' = led.face_greeting_counts
           /\ daily_greeting_count' = led.daily_greeting_count
           /\ stats_files' = save_face_counts(stats_files, today,
                                              led.daily_greeting_count,
                                              led.face_greeting_counts, outcome)
           /\ tracked_faces' = [tracked_faces EXCEPT ![idx] =
                                   [face EXCEPT !.last_greeting_time = current_time]]
           /\ fired' = Append(fired, face.id)
           /\ greeted_at' = [k \in (DOMAIN greeted_at) \cup {face.id} |->
                                IF k = face.id THEN current_time ELSE greeted_at[k]]
           /\ last_fire_time' = clock
    /\ speak_result' = "fired"
    /\ played' = ClipPlayed(Counted(tracked_faces[idx]))
    /\ idx' = idx + 1
    /\ UNCHANGED <<pc, current_time, global_cooldown_active, next_id, today,
                   use_sequential_greetings, clock, date, matched_indices,
                   dropped, ids_assigned, restarts, photos, dropped_ids,
                   stop_cause,
                   detected,
                   use_custom_greeting, greeting_files, files_present>>

\* the two clock readings exchanged: the global cooldown stamped with the
\* frame's time and the face with the time of the greeting
SpeakFired_swapped(outcome) ==
    /\ InLoop
    /\ Greetable(tracked_faces[idx])
    /\ Counted(tracked_faces[idx]).encounter_count <= MaxEncounter
    /\ ~busy
    /\ LET face == Counted(tracked_faces[idx])
           led  == CountGreeting(face_greeting_counts, face.id)
       IN  /\ busy' = TRUE
           /\ last_global_greeting_time' = current_time
           /\ face_greeting_counts' = led.face_greeting_counts
           /\ daily_greeting_count' = led.daily_greeting_count
           /\ stats_files' = save_face_counts(stats_files, today,
                                              led.daily_greeting_count,
                                              led.face_greeting_counts, outcome)
           /\ tracked_faces' = [tracked_faces EXCEPT ![idx] =
                                   [face EXCEPT !.last_greeting_time = clock]]
           /\ fired' = Append(fired, face.id)
           /\ greeted_at' = [k \in (DOMAIN greeted_at) \cup {face.id} |->
                                IF k = face.id THEN current_time ELSE greeted_at[k]]
           /\ last_fire_time' = clock
    /\ speak_result' = "fired"
    /\ played' = ClipPlayed(Counted(tracked_faces[idx]))
    /\ idx' = idx + 1
    /\ UNCHANGED <<pc, current_time, global_cooldown_active, next_id, today,
                   use_sequential_greetings, clock, date, matched_indices,
                   dropped, ids_assigned, restarts,
                   photos, dropped_ids, stop_cause,
                   detected,
                   use_custom_greeting, greeting_files, files_present>>

\* one iteration of the loop where speak plays a clip and returns True
SpeakFired(outcome) ==
    /\ InLoop
    /\ Greetable(tracked_faces[idx])
    /\ Counted(tracked_faces[idx]).encounter_count <= MaxEncounter
    /\ ~busy
    /\ LET face == Counted(tracked_faces[idx])
           led  == CountGreeting(face_greeting_counts, face.id)
       IN  /\ busy' = TRUE
           /\ last_global_greeting_time' = clock
           /\ face_greeting_counts' = led.face_greeting_counts
           /\ daily_greeting_count' = led.daily_greeting_count
           /\ stats_files' = save_face_counts(stats_files, today,
                                              led.daily_greeting_count,
                                              led.face_greeting_counts, outcome)
           /\ tracked_faces' = [tracked_faces EXCEPT ![idx] =
                                   [face EXCEPT !.last_greeting_time = current_time]]
           /\ fired' = Append(fired, face.id)
           /\ greeted_at' = [k \in (DOMAIN greeted_at) \cup {face.id} |->
                                IF k = face.id THEN current_time ELSE greeted_at[k]]
           /\ last_fire_time' = clock
    /\ speak_result' = "fired"
    /\ played' = ClipPlayed(Counted(tracked_faces[idx]))
    /\ idx' = idx + 1
    /\ UNCHANGED <<pc, current_time, global_cooldown_active, next_id, today,
                   use_sequential_greetings, clock, date, matched_indices,
                   dropped, ids_assigned, restarts,
                   photos, dropped_ids, stop_cause,
                   detected,
                   use_custom_greeting, greeting_files, files_present>>

\* process_frame returns; run shows the frame and polls the quit key
EndFrame ==
    /\ pc = "greet"
    /\ idx > Len(tracked_faces)
    /\ pc' = "check_date"
    /\ idx' = 0
    /\ matched_indices' = <<>>
    /\ dropped' = {}
    /\ photos' = <<>>
    /\ detected' = <<>>
    /\ fired' = <<>>
    /\ speak_result' = "none"
    /\ played' = NoClip
    /\ UNCHANGED <<current_time, global_cooldown_active, tracked_faces, next_id,
                   last_global_greeting_time, today, face_greeting_counts,
                   daily_greeting_count, use_sequential_greetings, stats_files,
                   busy, clock, date, greeted_at, last_fire_time, ids_assigned,
                   restarts,
                   dropped_ids, stop_cause,
                   use_custom_greeting, greeting_files, files_present>>

\* the ways the loop of run ends: the quit key after a frame was shown, a
\* camera that cannot be reopened, KeyboardInterrupt anywhere, an exception
\* raised in the body of the loop
StopCauses(p) ==
    {"interrupt"}
        \cup (IF p = "check_date" THEN {"quit"} ELSE {})
        \cup (IF p = "capture" THEN {"camera", "error"} ELSE {})
        \cup (IF p = "greet" THEN {"error"} ELSE {})

\* a finally block that releases the camera, the windows and the mixer
\* without saving
Exit_unsaved(outcome) ==
    /\ pc # "stopped"
    /\ pc' = "stopped"
    /\ stop_cause' \in StopCauses(pc)
    /\ busy' = FALSE
    /\ UNCHANGED <<idx, current_time, global_cooldown_active, tracked_faces,
                   next_id, last_global_greeting_time, today,
                   face_greeting_counts, daily_greeting_count,
                   use_sequential_greetings, stats_files, clock, date,
                   matched_indices, dropped, fired, speak_result, greeted_at,
                   last_fire_time, ids_assigned, restarts, photos, dropped_ids,
                   detected,
                   use_custom_greeting, greeting_files, files_present, played>>

\* the finally block of run: quit key, camera failure, KeyboardInterrupt or
\* an exception in the loop
Exit(outcome) ==
    /\ pc # "stopped"
    /\ pc' = "stopped"
    /\ stop_cause' \in StopCauses(pc)
    /\ stats_files' = save_face_counts(stats_files, today, daily_greeting_count,
                                       face_greeting_counts, outcome)
    /\ busy' = FALSE
    /\ UNCHANGED <<idx, current_time, global_cooldown_active, tracked_faces,
                   next_id, last_global_greeting_time, today,
                   face_greeting_counts, daily_greeting_count,
                   use_sequential_greetings, clock, date, matched_indices,
                   dropped, fired, speak_result, greeted_at, last_fire_time,
                   ids_assigned, restarts,
                   photos, dropped_ids,
                   detected,
                   use_custom_greeting, greeting_files, files_present, played>>

\* the program is started again with the same options: FaceDetectionApp.__init__
Restart ==
    /\ pc = "stopped"
    /\ restarts < MaxRestarts
    /\ restarts' = restarts + 1
    /\ Construct
    /\ UNCHANGED <<use_sequential_greetings, stats_files, clock, date,
                   use_custom_greeting, greeting_files, files_present>>

----------------------------------------------------------------------------
(* Environment *)

\* the clip that is playing ends
PlaybackEnds ==
    /\ busy
    /\ pc # "stopped"
    /\ busy' = FALSE
    /\ UNCHANGED <<pc, idx, current_time, global_cooldown_active, tracked_faces,
                   next_id, last_global_greeting_time, today,
                   face_greeting_counts, daily_greeting_count,
                   use_sequential_greetings, stats_files, clock, date,
                   matched_indices, dropped, fired, speak_result, greeted_at,
                   last_fire_time, ids_assigned, restarts,
                   photos, dropped_ids, stop_cause,
                   detected,
                   use_custom_greeting, greeting_files, files_present, played>>

\* a second passes, while the camera read blocks or during the frame
Tick ==
    /\ pc \in {"capture", "greet"}
    /\ clock < MaxTime
    /\ clock' = clock + 1
    /\ UNCHANGED <<pc, idx, current_time, global_cooldown_active, tracked_faces,
                   next_id, last_global_greeting_time, today,
                   face_greeting_counts, daily_greeting_count,
                   use_sequential_greetings, stats_files, busy, date,
                   matched_indices, dropped, fired, speak_result, greeted_at,
                   last_fire_time, ids_assigned, restarts,
                   photos, dropped_ids, stop_cause,
                   detected,
                   use_custom_greeting, greeting_files, files_present, played>>

\* the wall-clock date changes, at the top of the loop or while stopped
Midnight ==
    /\ pc \in {"check_date", "stopped"}
    /\ date < MaxDay
    /\ date' = date + 1
    /\ UNCHANGED <<pc, idx, current_time, global_cooldown_active, tracked_faces,
                   next_id, last_global_greeting_time, today,
                   face_greeting_counts, daily_greeting_count,
                   use_sequential_greetings, stats_files, busy, clock,
                   matched_indices, dropped, fired, speak_result, greeted_at,
                   last_fire_time, ids_assigned, restarts,
                   photos, dropped_ids, stop_cause,
                   detected,
                   use_custom_greeting, greeting_files, files_present, played>>

Next ==
    \/ CheckDate
    \/ \E dets \in Detections : ProcessFrame(dets)
    \/ SkipFace
    \/ \E result \in {"busy", "error"} : SpeakNotFired(result)
    \/ \E outcome \in SaveOutcomes : SpeakFired(outcome)
    \/ EndFrame
    \/ \E outcome \in SaveOutcomes : Exit(outcome)
    \/ Restart
    \/ PlaybackEnds
    \/ Tick
    \/ Midnight

Spec == Init /\ [][Next]_vars

----------------------------------------------------------------------------
(* The tracker alone: update_tracked_faces applied to every detection list,
   between the date checks of run *)

TrackFrame(dets) ==
    /\ pc = "capture"
    /\ dets # <<>>
    /\ TrackerUpdate(dets)
    /\ pc' = "tracked"
    /\ UNCHANGED <<idx, current_time, global_cooldown_active,
                   last_global_greeting_time, today, face_greeting_counts,
                   daily_greeting_count, use_sequential_greetings, stats_files,
                   busy, clock, date, fired, speak_result, greeted_at,
                   last_fire_time, restarts,
                   stop_cause,
                   use_custom_greeting, greeting_files, files_present, played>>

TrackDone ==
    /\ pc = "tracked"
    /\ pc' = "check_date"
    /\ matched_indices' = <<>>
    /\ dropped' = {}
    /\ photos' = <<>>
    /\ detected' = <<>>
    /\ UNCHANGED <<idx, current_time, global_cooldown_active, tracked_faces,
                   next_id, last_global_greeting_time, today,
                   face_greeting_counts, daily_greeting_count,
                   use_sequential_greetings, stats_files, busy, clock, date,
                   fired, speak_result, greeted_at, last_fire_time,
                   ids_assigned, restarts,
                   dropped_ids, stop_cause,
                   use_custom_greeting, greeting_files, files_present, played>>

TrackerInit == Init /\ ~use_sequential_greetings

TrackerNext ==
    \/ CheckDate
    \/ \E dets \in Detections : TrackFrame(dets)
    \/ TrackDone
    \/ Midnight

TrackerSpec == TrackerInit /\ [][TrackerNext]_vars

(* The scheduler over time, with two faces that stand far apart and are
   both seen in every frame that shows any *)

Near == CHOOSE r \in Rects : r.x = 0
Far == CHOOSE r \in Rects : r.x = 120

SchedDetections == {<<>>, <<Near, Far>>}

SchedNext ==
    \/ CheckDate
    \/ \E dets \in SchedDetections : ProcessFrame(dets)
    \/ SkipFace
    \/ \E result \in {"busy", "error"} : SpeakNotFired(result)
    \/ SpeakFired("ok")
    \/ EndFrame
    \/ PlaybackEnds
    \/ Tick

SchedSpec == Init /\ [][SchedNext]_vars

(* The scheduler with faces that are not seen in every frame: either of two
   faces standing far apart, or both, with the clock standing still *)

MissDetections == {<<>>, <<Near>>, <<Far>>, <<Near, Far>>}

MissNext ==
    \/ CheckDate
    \/ \E dets \in MissDetections : ProcessFrame(dets)
    \/ SkipFace
    \/ \E result \in {"busy", "error"} : SpeakNotFired(result)
    \/ SpeakFired("ok")
    \/ EndFrame
    \/ PlaybackEnds

MissSpec == Init /\ [][MissNext]_vars

(* The scheduler with a face that moves and faces that are not seen in every
   frame, with the clock standing still *)

Mid == CHOOSE r \in Rects : r.x = 60

MoveDetections == {<<>>, <<Near>>, <<Mid>>, <<Far>>, <<Near, Far>>}

MoveNext ==
    \/ CheckDate
    \/ \E dets \in MoveDetections : ProcessFrame(dets)
    \/ SkipFace
    \/ \E result \in {"busy", "error"} : SpeakNotFired(result)
    \/ SpeakFired("ok")
    \/ EndFrame
    \/ PlaybackEnds

MoveSpec == Init /\ [][MoveNext]_vars

(* The choice of the clip: any options, any set of recorded clips, which
   may appear and disappear while the program runs; two faces seen in every
   frame, with the clock standing still *)

\* the program is started in one mode, sequential before custom
\* (main.py:756-777), and _load_sequential_greeting_files runs in sequential
\* mode only (main.py:177)
ClipInit ==
    /\ Started
    /\ use_custom_greeting \in (IF use_sequential_greetings
                                THEN {FALSE} ELSE BOOLEAN)
    /\ greeting_files \in (IF use_sequential_greetings
                           THEN SUBSET (1..MaxEncounter) ELSE {{}})
    /\ files_present \in SUBSET ClipFiles

\* the default or the custom clip is recorded or deleted while the program runs
FilesChange ==
    /\ files_present' \in (SUBSET ClipFiles) \ {files_present}
    /\ UNCHANGED <<pc, idx, current_time, global_cooldown_active, tracked_faces,
                   next_id, last_global_greeting_time, today,
                   face_greeting_counts, daily_greeting_count,
                   use_sequential_greetings, stats_files, busy, clock, date,
                   matched_indices, dropped, fired, speak_result, greeted_at,
                   last_fire_time, ids_assigned, restarts, photos, dropped_ids,
                   stop_cause, detected, use_custom_greeting, greeting_files,
                   played>>

ClipNext ==
    \/ CheckDate
    \/ \E dets \in SchedDetections : ProcessFrame(dets)
    \/ SkipFace
    \/ \E result \in {"busy", "error"} : SpeakNotFired(result)
    \/ SpeakFired("ok")
    \/ EndFrame
    \/ PlaybackEnds
    \/ FilesChange

ClipSpec == ClipInit /\ [][ClipNext]_vars

(* The scheduler over time as in SchedSpec, with the date changing *)

RollNext ==
    \/ SchedNext
    \/ Midnight

RollSpec == Init /\ [][RollNext]_vars

(* The ledger over greetings, saves, exits, restarts and day changes, with
   the clock standing still *)

LedgerDetections == {<<>>, <<Near, Far>>}

LedgerNext ==
    \/ CheckDate
    \/ \E dets \in LedgerDetections : ProcessFrame(dets)
    \/ SkipFace
    \/ \E result \in {"busy", "error"} : SpeakNotFired(result)
    \/ \E outcome \in SaveOutcomes : SpeakFired(outcome)
    \/ EndFrame
    \/ \E outcome \in SaveOutcomes : Exit(outcome)
    \/ Restart
    \/ PlaybackEnds
    \/ Midnight

LedgerSpec == Init /\ [][LedgerNext]_vars

(* The ledger as in LedgerSpec, with the write of the finally block
   succeeding; the saves of greetings and rollovers may still fail *)

ExitNext ==
    \/ CheckDate
    \/ \E dets \in LedgerDetections : ProcessFrame(dets)
    \/ SkipFace
    \/ \E result \in {"busy", "error"} : SpeakNotFired(result)
    \/ \E outcome \in SaveOutcomes : SpeakFired(outcome)
    \/ EndFrame
    \/ Exit("ok")
    \/ Restart
    \/ PlaybackEnds
    \/ Midnight

ExitSpec == Init /\ [][ExitNext]_vars

(* The greeting loop with the clock running and the save of a fired greeting
   succeeding, failing to open the file or being interrupted *)

GreetNext ==
    \/ CheckDate
    \/ \E dets \in SchedDetections : ProcessFrame(dets)
    \/ SkipFace
    \/ \E result \in {"busy", "error"} : SpeakNotFired(result)
    \/ \E outcome \in SaveOutcomes : SpeakFired(outcome)
    \/ EndFrame
    \/ PlaybackEnds
    \/ Tick

GreetSpec == Init /\ [][GreetNext]_vars

(* Two faces seen in every frame, for ever. The code compares times only by
   their difference and never reads a count to decide a greeting, so the run
   is kept finite in two ways: once the clock has reached MaxTime a second
   passes by moving every stored time one second back (a stored time of 0 is
   then at least MaxTime seconds old, past both cooldowns), and a count of
   CountCap stands for CountCap or more. Time passes between frames only, a
   second per frame at most. *)

Earlier(t) == IF t > 0 THEN t - 1 ELSE 0

\* a second passes while the camera read blocks, seen from a time origin that
\* moves with the clock
TickRebased ==
    /\ pc = "capture"
    /\ clock = MaxTime
    /\ current_time' = Earlier(current_time)
    /\ last_global_greeting_time' = Earlier(last_global_greeting_time)
    /\ tracked_faces' = [i \in 1..Len(tracked_faces) |->
                            [tracked_faces[i] EXCEPT
                                !.last_greeting_time = Earlier(@)]]
    /\ greeted_at' = [k \in DOMAIN greeted_at |-> Earlier(greeted_at[k])]
    /\ last_fire_time' = IF last_fire_time < 0 THEN last_fire_time
                         ELSE Earlier(last_fire_time)
    /\ UNCHANGED <<pc, idx, global_cooldown_active, next_id,
                   today, face_greeting_counts, daily_greeting_count,
                   use_sequential_greetings, stats_files, busy, clock, date,
                   matched_indices, dropped, fired, speak_result,
                   ids_assigned, restarts,
                   photos, dropped_ids, stop_cause,
                   detected,
                   use_custom_greeting, greeting_files, files_present, played>>

\* CountGreeting with every count kept at CountCap at most
CountGreetingCapped(counts, face_id) ==
    LET c == CountGreeting(counts, face_id).face_greeting_counts
        k == [f \in DOMAIN c |-> IF c[f] > CountCap THEN CountCap ELSE c[f]]
    IN  [face_greeting_counts |-> k, daily_greeting_count |-> SumValues(k)]

\* SpeakFired with the counts kept at CountCap at most and the save succeeding
SpeakFiredCapped ==
    /\ InLoop
    /\ Greetable(tracked_faces[idx])
    /\ ~busy
    /\ LET face == Counted(tracked_faces[idx])
           led  == CountGreetingCapped(face_greeting_counts, face.id)
       IN  /\ busy' = TRUE
           /\ last_global_greeting_time' = clock
           /\ face_greeting_counts' = led.face_greeting_counts
           /\ daily_greeting_count' = led.daily_greeting_count
           /\ stats_files' = save_face_counts(stats_files, today,
                                              led.daily_greeting_count,
                                              led.face_greeting_counts, "ok")
           /\ tracked_faces' = [tracked_faces EXCEPT ![idx] =
                                   [face EXCEPT !.last_greeting_time = current_time]]
           /\ fired' = Append(fired, face.id)
           /\ greeted_at' = [k \in (DOMAIN greeted_at) \cup {face.id} |->
                                IF k = face.id THEN current_time ELSE greeted_at[k]]
           /\ last_fire_time' = clock
    /\ speak_result' = "fired"
    /\ played' = ClipPlayed(Counted(tracked_faces[idx]))
    /\ idx' = idx + 1
    /\ UNCHANGED <<pc, current_time, global_cooldown_active, next_id, today,
                   use_sequential_greetings, clock, date, matched_indices,
                   dropped, ids_assigned, restarts,
                   photos, dropped_ids, stop_cause,
                   detected,
                   use_custom_greeting, greeting_files, files_present>>

LiveInit == Init /\ ~use_sequential_greetings

\* a frame with both faces in it
FrameArrives == ProcessFrame(<<Near, Far>>)

\* the other steps of the main loop
LoopStep ==
    \/ CheckDate
    \/ SkipFace
    \/ SpeakNotFired("busy")
    \/ SpeakFiredCapped
    \/ EndFrame

\* a second passes between two frames, and at most one: the camera delivers
\* a frame a second or more
TimePasses ==
    /\ pc = "capture"
    /\ current_time = clock
    /\ Tick \/ TickRebased

LiveNext == FrameArrives \/ LoopStep \/ PlaybackEnds \/ TimePasses

\* frames keep arriving, the loop keeps running, a started clip ends, and
\* time passes again and again
LiveSpec ==
    /\ LiveInit
    /\ [][LiveNext]_vars
    /\ []<><<FrameArrives>>_vars
    /\ WF_vars(LoopStep)
    /\ WF_vars(PlaybackEnds)
    /\ SF_vars(TimePasses)

----------------------------------------------------------------------------
(* Properties *)

\* a step in which speak returned True for the face at idx
GreetingFires == InLoop /\ Len(fired') = Len(fired) + 1

\* a step in which speak was called while music was playing
BusyAttempt == InLoop /\ Greetable(tracked_faces[idx]) /\ busy /\ idx' = idx + 1

PersistedCount(files, d, k) == Get(load_face_counts(files, d), k)

\* C1: in one call of update_tracked_faces no tracked identity is matched by
\* more than one detection, i.e. no index occurs twice in matched_indices.
C1_MatchedAtMostOnce ==
    \A i, j \in 1..Len(matched_indices) :
        i # j => matched_indices[i] # matched_indices[j]

\* C2: an identity is removed only once it has gone max_missing_frames + 1
\* consecutive updates without a match; at max_missing_frames it is kept.
C2_RemovedAfterElevenMisses ==
    \A d \in dropped : d.frames_missing >= max_missing_frames + 1

\* C3: a greeting fires for an identity only in a frame whose time is at least
\* greeting_cooldown after the frame time of that identity's previous
\* greeting, and in every frame at or after that time the identity passes
\* the per-identity gate.
C3_GateOpen ==
    pc = "greet" =>
        \A i \in 1..Len(tracked_faces) :
            LET f == tracked_faces[i]
            IN  (f.id \in DOMAIN greeted_at
                 /\ current_time >= greeted_at[f.id] + greeting_cooldown)
                => ~cooldown_active(f)

C3_PerIdentityCooldown ==
    [][/\ GreetingFires =>
            LET id == tracked_faces[idx].id
            IN  id \in DOMAIN greeted_at =>
                    current_time >= greeted_at[id] + greeting_cooldown
       /\ C3_GateOpen']_vars

\* C3 witness: an identity is greeted a second time, exactly greeting_cooldown
\* after its first greeting.
C3_Witness ==
    /\ pc = "greet"
    /\ speak_result = "fired"
    /\ fired # <<>>
    /\ Get(face_greeting_counts, fired[Len(fired)]) >= 2
    /\ greeted_at[fired[Len(fired)]] = StartTime + greeting_cooldown

\* C4: the first greeting of a frame fires only if the frame's time is at
\* least global_greeting_cooldown after the time the last greeting of an
\* earlier frame fired, whichever identity that was for; and a frame at or
\* after that time has the global gate open.
C4_GateOpen ==
    (pc = "greet" /\ fired = <<>> /\ last_fire_time # -1
        /\ current_time >= last_fire_time + global_greeting_cooldown)
    => ~global_cooldown_active

C4_GlobalCooldown ==
    [][/\ (GreetingFires /\ fired = <<>> /\ last_fire_time # -1)
            => current_time >= last_fire_time + global_greeting_cooldown
       /\ C4_GateOpen']_vars

\* C4 witness: an identity is greeted in a frame exactly
\* global_greeting_cooldown after another identity's greeting.
C4_Witness ==
    /\ pc = "greet"
    /\ Len(fired) = 1
    /\ \E a \in DOMAIN greeted_at :
          /\ a # fired[1]
          /\ greeted_at[a] + global_greeting_cooldown = current_time

\* C5: at most one greeting fires in one process_frame call.
C5_OneGreetingPerFrame == Len(fired) <= 1

\* C6: a greeting attempt while music is playing is reported as not fired
\* and changes neither cooldown timestamp, nor the counts, the total or the
\* stats files.
C6_BusyNoPenalty ==
    [][BusyAttempt =>
        /\ speak_result' = "busy"
        /\ fired' = fired
        /\ last_global_greeting_time' = last_global_greeting_time
        /\ Len(tracked_faces') = Len(tracked_faces)
        /\ \A i \in 1..Len(tracked_faces) :
              tracked_faces'[i].last_greeting_time = tracked_faces[i].last_greeting_time
        /\ face_greeting_counts' = face_greeting_counts
        /\ daily_greeting_count' = daily_greeting_count
        /\ stats_files' = stats_files]_vars

\* C6 witness: speak has just returned False because music was playing, for
\* an identity past both cooldowns, after an earlier greeting was counted.
C6_Witness ==
    /\ pc = "greet"
    /\ speak_result = "busy"
    /\ daily_greeting_count >= 1

\* C7: daily_greeting_count is the sum of the values of face_greeting_counts.
C7_LedgerSum == daily_greeting_count = SumValues(face_greeting_counts)

\* C7 witness: after a restart that loaded a record, a key has been greeted
\* again and the total is at least 2.
C7_Witness ==
    /\ restarts = 1
    /\ daily_greeting_count >= 2
    /\ \E k \in DOMAIN face_greeting_counts : face_greeting_counts[k] >= 2

\* C8: every record in a stats file has greeting_count equal to the sum of
\* its face_counts.
C8_PersistedSum ==
    \A d \in Days :
        stats_files[d].kind = "record" =>
            stats_files[d].greeting_count = SumValues(stats_files[d].face_counts)

\* C8 witness: a record holds a key greeted twice, and the next day's record
\* has been written too.
C8_Witness ==
    \E d \in Days :
        /\ stats_files[d].kind = "record"
        /\ \E k \in DOMAIN stats_files[d].face_counts :
              stats_files[d].face_counts[k] >= 2
        /\ \E e \in Days : e # d /\ stats_files[e].kind = "record"

\* C9: while the day-stamp stays the same no key's count in memory decreases,
\* and no key's count in the stats file of any day ever decreases.
C9_CountsNeverDecrease ==
    [][/\ today' = today =>
            \A k \in DOMAIN face_greeting_counts :
                Get(face_greeting_counts', k) >= face_greeting_counts[k]
       /\ \A d \in Days : \A k \in DOMAIN load_face_counts(stats_files, d) :
            PersistedCount(stats_files', d, k) >= PersistedCount(stats_files, d, k)]_vars

\* C10: every id given to a new identity is greater than every id assigned
\* earlier in the same process.
C10_IdsNeverReused ==
    [][next_id' > next_id =>
        \A n \in next_id..(next_id' - 1) : \A m \in ids_assigned : m < n]_vars

\* the cost of a rectangle against a face of the same area is the distance of
\* the centres
WithinThreshold(face, r) ==
    LET dx == face.centerX - (r.x + (r.w \div 2))
        dy == face.centerY - (r.y + (r.h \div 2))
    IN  IF face.w * face.h = r.w * r.h
        THEN dx * dx + dy * dy < same_face_threshold * same_face_threshold
        ELSE distance_below(face, r, same_face_threshold)

\* the faces, the id counter and matched_indices after the first k detections
\* of a frame
AfterDetections(dets, k) ==
    MatchDetections(AgeAll(tracked_faces), next_id, <<>>, SubSeq(dets, 1, k))

\* C11: in a call of update_tracked_faces a detection whose cost against some
\* tracked identity, one created earlier in the same call included, is below
\* same_face_threshold updates exactly one identity and creates none; a
\* detection whose cost against every tracked identity is at or above the
\* threshold creates exactly one identity and updates none.
C11_MatchingThreshold ==
    pc = "capture" =>
        \A dets \in Detections : \A k \in 1..Len(dets) :
            LET b == AfterDetections(dets, k - 1)
                a == AfterDetections(dets, k)
                r == dets[k]
                n == Len(b.faces)
            IN  IF \E i \in 1..n : WithinThreshold(b.faces[i], r)
                THEN /\ Len(a.faces) = n
                     /\ a.next_id = b.next_id
                     /\ Len(a.matched_indices) = Len(b.matched_indices) + 1
                     /\ LET i == a.matched_indices[Len(a.matched_indices)]
                        IN  /\ WithinThreshold(b.faces[i], r)
                            /\ a.faces[i] = update_position(b.faces[i], r)
                            /\ \A j \in 1..n : j # i => a.faces[j] = b.faces[j]
                ELSE /\ Len(a.faces) = n + 1
                     /\ a.next_id = b.next_id + 1
                     /\ a.matched_indices = b.matched_indices
                     /\ a.faces[n + 1] = NewTrackedFace(r, b.next_id)
                     /\ \A j \in 1..n : a.faces[j] = b.faces[j]

\* C11 witness: one call has created two identities from two detections far
\* apart, and a later call has matched one detection and created none.
C11_Witness ==
    /\ pc = "tracked"
    /\ Len(tracked_faces) = 2
    /\ Len(matched_indices) = 1
    /\ next_id = 3
    /\ ids_assigned = {1, 2}

\* the date check at the top of a loop iteration
DateCheck == pc = "check_date" /\ pc' = "capture"

\* what the date check may reset
RolloverState ==
    <<today, face_greeting_counts, daily_greeting_count, tracked_faces,
      next_id, stats_files>>

\* C12: the date check leaves the day-stamp equal to the date it saw, and a
\* date check that sees the day-stamp's date changes nothing: checking twice
\* with the same new day leaves the state of checking once.
C12_RolloverIdempotent ==
    [][DateCheck =>
          /\ today' = date
          /\ (today = date => UNCHANGED RolloverState)]_vars

\* C12 witness: the process has rolled over to day 2, greeted on day 2, and a
\* later date check on day 2 has kept the ledger and the identity.
C12_Witness ==
    /\ pc = "capture"
    /\ restarts = 0
    /\ today = 2
    /\ date = 2
    /\ daily_greeting_count >= 1
    /\ tracked_faces # <<>>

\* C13 as stated: a date check that sees another date than the day-stamp
\* leaves an empty ledger, a total of 0, the new day-stamp, no tracked face and
\* the empty ledger in the new day's record; a date check that sees the
\* day-stamp's date touches none of these.
C13_RolloverSaved ==
    [][DateCheck =>
          IF date # today
          THEN /\ face_greeting_counts' = EmptyDict
               /\ daily_greeting_count' = 0
               /\ today' = date
               /\ tracked_faces' = <<>>
               /\ stats_files'[date] = Record(0, EmptyDict)
          ELSE UNCHANGED RolloverState]_vars

\* C13 amended: as C13, but the new day's record holds the empty ledger only
\* if the write succeeds; a write that cannot open the file leaves the record
\* as it was and an interrupted write leaves it incomplete. No other day's
\* record changes.
C13_Rollover ==
    [][DateCheck =>
          IF date # today
          THEN /\ face_greeting_counts' = EmptyDict
               /\ daily_greeting_count' = 0
               /\ today' = date
               /\ tracked_faces' = <<>>
               /\ stats_files'[date] \in {Record(0, EmptyDict), stats_files[date], Corrupt}
               /\ \A d \in Days \ {date} : stats_files'[d] = stats_files[d]
          ELSE UNCHANGED RolloverState]_vars

\* C13 witness: day 1 had greetings, and the date check of day 2 has emptied
\* the ledger and the tracker and written the empty record of day 2.
C13_Witness ==
    /\ pc = "capture"
    /\ restarts = 0
    /\ today = 2
    /\ stats_files[1].kind = "record"
    /\ stats_files[1].greeting_count >= 1
    /\ stats_files[2] = Record(0, EmptyDict)
    /\ face_greeting_counts = EmptyDict
    /\ daily_greeting_count = 0
    /\ tracked_faces = <<>>
    /\ ids_assigned # {}

\* C14: with both faces matched in every frame, frames arriving, time passing
\* and every started clip ending, each of the two identities is eventually
\* greeted.
C14_NoStarvation ==
    \A k \in {1, 2} : <>(Get(face_greeting_counts, k) >= 1)

\* C15: every tracked identity's encounter_count is the number of greetings
\* that have fired for it. (Under SchedSpec no identity is dropped, the day
\* does not change and the process is not restarted, so the ledger's count of
\* an id is the number of greetings fired for that identity.)
C15_EncounterCountIsFired ==
    \A i \in 1..Len(tracked_faces) :
        tracked_faces[i].encounter_count =
            Get(face_greeting_counts, tracked_faces[i].id)

\* C16: when a greeting fires for a face, afterwards the face's
\* last_greeting_time and last_global_greeting_time are the same time, the
\* count of the face's id is one more than before, no other count and no other
\* face's last_greeting_time has changed, daily_greeting_count is the sum of
\* the counts, and the day's record holds the ledger.
C16_FiredGreetingEffects ==
    [][GreetingFires =>
          LET id == tracked_faces[idx].id
          IN  /\ tracked_faces'[idx].last_greeting_time = last_global_greeting_time'
              /\ Get(face_greeting_counts', id) = Get(face_greeting_counts, id) + 1
              /\ \A k \in DOMAIN face_greeting_counts' :
                    k # id => /\ k \in DOMAIN face_greeting_counts
                              /\ face_greeting_counts'[k] = face_greeting_counts[k]
              /\ \A j \in 1..Len(tracked_faces) :
                    j # idx => tracked_faces'[j].last_greeting_time =
                                   tracked_faces[j].last_greeting_time
              /\ daily_greeting_count' = SumValues(face_greeting_counts')
              /\ stats_files'[today] =
                     Record(daily_greeting_count', face_greeting_counts')]_vars

\* C16 amended: when a greeting fires for a face, afterwards the face's
\* last_greeting_time is the time read at the start of the frame and
\* last_global_greeting_time is the time read in speak, which is the same or
\* later; the count of the face's id is one more than before, no other count
\* and no other face's last_greeting_time has changed, daily_greeting_count is
\* the sum of the counts, and save_face_counts has been called: the day's
\* record holds the ledger if the write succeeds, is as it was if the file
\* cannot be opened and is incomplete if the write is interrupted.
C16_FiredGreeting ==
    [][GreetingFires =>
          LET id == tracked_faces[idx].id
          IN  /\ tracked_faces'[idx].last_greeting_time = current_time
              /\ last_global_greeting_time' = clock
              /\ current_time <= clock
              /\ Get(face_greeting_counts', id) = Get(face_greeting_counts, id) + 1
              /\ \A k \in DOMAIN face_greeting_counts' :
                    k # id => /\ k \in DOMAIN face_greeting_counts
                              /\ face_greeting_counts'[k] = face_greeting_counts[k]
              /\ \A j \in 1..Len(tracked_faces) :
                    j # idx => tracked_faces'[j].last_greeting_time =
                                   tracked_faces[j].last_greeting_time
              /\ daily_greeting_count' = SumValues(face_greeting_counts')
              /\ stats_files'[today] \in
                     {Record(daily_greeting_count', face_greeting_counts'),
                      stats_files[today], Corrupt}
              /\ \A d \in Days \ {today} : stats_files'[d] = stats_files[d]]_vars

\* C16 witness: a second greeting has just fired, for the second face while
\* the first has a count; its save has succeeded, and the clock has advanced
\* between the start of the frame and speak, so that the two cooldown times
\* differ.
C16_Witness ==
    /\ pc = "greet"
    /\ speak_result = "fired"
    /\ fired = <<2>>
    /\ Get(face_greeting_counts, 1) >= 1
    /\ Get(face_greeting_counts, 2) = 1
    /\ stats_files[today] = Record(daily_greeting_count, face_greeting_counts)
    /\ Len(tracked_faces) = 2
    /\ tracked_faces[2].last_greeting_time = current_time
    /\ last_global_greeting_time > current_time

\* a frame in which the detector finds no face
EmptyFrame == pc = "capture" /\ pc' = "check_date"

\* C17: a frame with no detection adds one to every tracked identity's
\* frames_missing, drops the identities that thereby reach the staleness
\* threshold, and changes nothing else of the identity set.
C17_EmptyFrameAges ==
    [][EmptyFrame =>
          tracked_faces' = SelectSeq(AgeAll(tracked_faces), StillSeen)]_vars

\* C18: a step leaves every day's record either as it was or holding the
\* complete ledger that was in memory at the save, never incomplete.
C18_SaveAtomic ==
    [][\A d \in Days :
          \/ stats_files'[d] = stats_files[d]
          \/ /\ d = today'
             /\ stats_files'[d] = Record(daily_greeting_count', face_greeting_counts')]_vars

\* speak starts a clip
PlaybackStarts == InLoop /\ ~busy /\ busy'

\* C19: whenever speak starts a clip, whether the save that follows succeeds
\* or not, speak reports the greeting as fired, the count of the face's id in
\* memory is one more than before and both cooldown times are set; and
\* whenever a step writes a record, the record is the complete ledger in
\* memory, earlier unsaved increments included.
C19_FailedSaveLosesNothing ==
    [][/\ PlaybackStarts =>
             LET id == tracked_faces[idx].id
             IN  /\ speak_result' = "fired"
                 /\ fired' = Append(fired, id)
                 /\ Get(face_greeting_counts', id) = Get(face_greeting_counts, id) + 1
                 /\ daily_greeting_count' = SumValues(face_greeting_counts')
                 /\ last_global_greeting_time' = clock
                 /\ tracked_faces'[idx].last_greeting_time = current_time
       /\ \A d \in Days :
             (stats_files'[d] # stats_files[d] /\ stats_files'[d].kind = "record")
                 => /\ d = today'
                    /\ stats_files'[d] =
                           Record(daily_greeting_count', face_greeting_counts')]_vars

\* C19 witness: a greeting has just fired and its save has failed: the count
\* and the face's cooldown time are in memory, the day's record lacks them.
C19_Witness ==
    /\ pc = "greet"
    /\ speak_result = "fired"
    /\ fired # <<>>
    /\ Get(face_greeting_counts, fired[Len(fired)]) >= 1
    /\ stats_files[today] # Record(daily_greeting_count, face_greeting_counts)
    /\ \E i \in 1..Len(tracked_faces) :
          /\ tracked_faces[i].id = fired[Len(fired)]
          /\ tracked_faces[i].last_greeting_time = current_time

\* the process is started again
Starts == pc = "stopped" /\ pc' = "check_date"

\* C20: a start that finds no record for the current day leaves an empty
\* ledger with a total of 0 and goes on to the main loop, and a greeting fired
\* for an id that has no count yet leaves a count of 1 for it.
C20_LoadWithoutRecord ==
    [][/\ (Starts /\ stats_files[date].kind = "absent") =>
             /\ face_greeting_counts' = EmptyDict
             /\ daily_greeting_count' = 0
             /\ today' = date
       /\ (GreetingFires /\ tracked_faces[idx].id \notin DOMAIN face_greeting_counts) =>
             face_greeting_counts'[tracked_faces[idx].id] = 1]_vars

\* C20 witness: the process was started again on day 1 with no record of
\* day 1 on disk (no save has written one), and its first greeting has fired.
C20_Witness ==
    /\ restarts = 1
    /\ today = 1
    /\ stats_files[1].kind = "absent"
    /\ pc = "greet"
    /\ fired # <<>>
    /\ face_greeting_counts = [k \in {fired[1]} |-> 1]
    /\ daily_greeting_count = 1

\* a step in which speak was called with the mixer idle and no clip started:
\* loading or starting the clip raised
ErrorAttempt ==
    /\ InLoop
    /\ Greetable(tracked_faces[idx])
    /\ ~busy
    /\ ~busy'
    /\ idx' = idx + 1

\* C21: when loading or starting the clip raises, speak returns False and the
\* loop goes on; neither cooldown time changes, the counts, the total and the
\* stats files are unchanged, and the identity is still past its own cooldown.
C21_AudioErrorNotFired ==
    [][ErrorAttempt =>
          /\ speak_result' = "error"
          /\ fired' = fired
          /\ pc' = "greet"
          /\ last_global_greeting_time' = last_global_greeting_time
          /\ Len(tracked_faces') = Len(tracked_faces)
          /\ \A i \in 1..Len(tracked_faces) :
                tracked_faces'[i].last_greeting_time =
                    tracked_faces[i].last_greeting_time
          /\ ~cooldown_active(tracked_faces'[idx])
          /\ face_greeting_counts' = face_greeting_counts
          /\ daily_greeting_count' = daily_greeting_count
          /\ stats_files' = stats_files]_vars

\* C21 witness: after a greeting of the first face was counted and saved, the
\* clip for the second face has failed to load: the second face has no count
\* and no cooldown time.
C21_Witness ==
    /\ pc = "greet"
    /\ speak_result = "error"
    /\ idx = 3
    /\ Len(tracked_faces) = 2
    /\ Get(face_greeting_counts, 1) >= 1
    /\ Get(face_greeting_counts, 2) = 0
    /\ tracked_faces[2].last_greeting_time = 0
    /\ stats_files[today] = Record(daily_greeting_count, face_greeting_counts)

\* the loop of run ends
Stops == pc # "stopped" /\ pc' = "stopped"

C23_AudioMutualExclusion ==
    [][/\ GreetingFires => (~busy /\ busy')
       /\ (busy /\ pc' = "greet" /\ idx' # idx) =>
             /\ busy'
             /\ fired' = fired
             /\ last_fire_time' = last_fire_time]_vars

\* C23 witness: while the clip of the first face is playing and both
\* cooldowns of the second face are over, speak is called for the second face
\* and starts nothing.
C23_Witness ==
    /\ pc = "greet"
    /\ busy
    /\ speak_result = "busy"
    /\ idx = 3
    /\ fired = <<>>
    /\ Get(face_greeting_counts, 1) >= 1
    /\ Get(face_greeting_counts, 2) = 0
    /\ current_time - last_global_greeting_time >= global_greeting_cooldown

\* a call of update_tracked_faces
TrackStep == pc = "capture" /\ detected' # <<>>

C25_PhotoOncePerNewIdentity ==
    [][TrackStep =>
          /\ Len(photos') = next_id' - next_id
          /\ \A i \in 1..Len(photos') : photos'[i].id = next_id + i - 1
          /\ Len(photos') + Len(matched_indices') = Len(detected')
          /\ \A i \in 1..Len(photos') :
                /\ \A j \in 1..Len(tracked_faces) :
                      tracked_faces[j].id # photos'[i].id
                /\ \E j \in 1..Len(tracked_faces') :
                      /\ tracked_faces'[j].id = photos'[i].id
                      /\ tracked_faces'[j].frames_missing = 0]_vars

\* C25 witness: in one call an existing identity was matched and not
\* photographed, and an identity was created whose photo was not saved and
\* which is tracked.
C25_Witness ==
    /\ pc = "tracked"
    /\ Len(detected) = 2
    /\ Len(matched_indices) = 1
    /\ Len(photos) = 1
    /\ ~photos[1].saved
    /\ \E j \in 1..Len(tracked_faces) : tracked_faces[j].id = photos[1].id

\* an exception is raised while a frame is processed: in process_frame before
\* the greeting loop (pc = "capture") or inside it (pc = "greet")
FrameException ==
    /\ pc \in {"capture", "greet"}
    /\ stop_cause = "none"
    /\ stop_cause' = "error"

\* C26: an exception raised while a frame is processed does not end the loop
\* of run: the loop is still running after it.
C26_FrameExceptionContained ==
    [][FrameException => pc' # "stopped"]_vars

\* C27: in a call of update_tracked_faces a detection whose cost is below
\* the threshold against some tracked identities is matched to the one that
\* comes first in tracked_faces, whatever the costs of the later ones, and no
\* other identity is changed by that detection.
C27_GreedyFirstMatch ==
    pc = "capture" =>
        \A dets \in Detections : \A k \in 1..Len(dets) :
            LET b == AfterDetections(dets, k - 1)
                a == AfterDetections(dets, k)
                r == dets[k]
                n == Len(b.faces)
                hits == {i \in 1..n : WithinThreshold(b.faces[i], r)}
            IN  hits # {} =>
                    /\ a.matched_indices # <<>>
                    /\ LET i == a.matched_indices[Len(a.matched_indices)]
                       IN  /\ i \in hits
                           /\ \A j \in hits : i <= j
                           /\ a.faces[i] = update_position(b.faces[i], r)
                           /\ \A j \in 1..n : j # i => a.faces[j] = b.faces[j]

\* C27 witness: the second identity stood at x = 120 and was seen in the frame
\* before; the frame's detections at 60 and at 120 have both gone to the
\* first identity, the second at cost 60 against cost 0 for the second
\* identity, which is left as missing.
C27_Witness ==
    /\ pc = "tracked"
    /\ detected = <<CHOOSE r \in Rects : r.x = 60, Far>>
    /\ matched_indices = <<1, 1>>
    /\ Len(tracked_faces) = 2
    /\ tracked_faces[1].x = 120
    /\ tracked_faces[2].x = 120
    /\ tracked_faces[2].frames_missing = 1

\* C28: a greeting attempt made while music is playing changes no state, in
\* either mode: every field of every identity, encounter_count included, the
\* global cooldown timestamp, the ledger and the stats files are as before.
\* (current_language is assigned only inside the branch that plays a clip,
\* main.py:406/422/428, and is not a variable of the model.)
C28_BusySkipMutatesNothing ==
    [][BusyAttempt =>
          UNCHANGED <<tracked_faces, next_id, last_global_greeting_time,
                      face_greeting_counts, daily_greeting_count, today,
                      stats_files, busy>>]_vars

\* C29: an identity removed for staleness does not come back: after a call
\* of update_tracked_faces no tracked identity carries the id of an identity
\* that was dropped earlier in the process, and every identity the call has
\* created has last_greeting_time 0 and encounter_count 0, so that it is past
\* its own cooldown at once.
C29_DroppedNeverMergedBack ==
    [][TrackStep =>
          /\ \A j \in 1..Len(tracked_faces') :
                tracked_faces'[j].id \notin dropped_ids'
          /\ \A i \in 1..Len(photos') :
                \E j \in 1..Len(tracked_faces') :
                    /\ tracked_faces'[j].id = photos'[i].id
                    /\ tracked_faces'[j].last_greeting_time = 0
                    /\ tracked_faces'[j].encounter_count = 0]_vars

\* the loop of process_frame passes a face that was not seen in this frame
PassesMissing ==
    /\ InLoop
    /\ tracked_faces[idx].frames_missing > 0
    /\ idx' = idx + 1

\* C30: after a call of update_tracked_faces the identities with
\* frames_missing = 0 are those the call has matched or created (an index of
\* matched_indices is a place in the list the scan saw: the identities from
\* before the call, then the created ones); a greeting fires only for an
\* identity with frames_missing = 0; and the loop passes an identity that is missing in the frame without changing
\* any identity, the cooldown timestamps, the ledger, the stats files or the
\* mixer.
C30_OnlyLiveGreeted ==
    [][/\ TrackStep =>
             LET n == Len(tracked_faces)
                 scanned(k) == IF k <= n THEN tracked_faces[k].id
                               ELSE next_id + (k - n) - 1
                 seen == {photos'[i].id : i \in 1..Len(photos')}
                             \cup {scanned(matched_indices'[i]) :
                                      i \in 1..Len(matched_indices')}
             IN  \A j \in 1..Len(tracked_faces') :
                     tracked_faces'[j].frames_missing = 0
                         <=> tracked_faces'[j].id \in seen
       /\ GreetingFires => tracked_faces[idx].frames_missing = 0
       /\ PassesMissing =>
             /\ speak_result' = speak_result
             /\ UNCHANGED <<tracked_faces, last_global_greeting_time,
                            face_greeting_counts, daily_greeting_count,
                            stats_files, busy, fired>>]_vars

\* C30 witness: in a frame that shows only the second face, the loop has
\* passed the first identity, which is missing and past both cooldowns, with
\* the mixer idle, and has then greeted the second.
C30_Witness ==
    /\ pc = "greet"
    /\ idx = 3
    /\ ~global_cooldown_active
    /\ tracked_faces[1].frames_missing > 0
    /\ tracked_faces[1].last_greeting_time = 0
    /\ fired = <<tracked_faces[2].id>>
    /\ Get(face_greeting_counts, tracked_faces[1].id) = 0

\* one iteration of `for face in self.tracked_faces` in process_frame
LoopIteration == InLoop /\ idx' # idx

\* the iteration is for a live identity past both cooldowns, the mixer is
\* idle and no greeting has fired yet in this frame
FirstCandidate ==
    /\ LoopIteration
    /\ Greetable(tracked_faces[idx])
    /\ ~busy
    /\ fired = <<>>

\* the loop goes through tracked_faces in list order, and a greeting that
\* fires is for the identity the loop is at
InTrackerOrder ==
    LoopIteration =>
        /\ idx' = idx + 1
        /\ fired' # fired => fired' = Append(fired, tracked_faces[idx].id)

\* C31 (as stated): the loop visits the identities in tracked_faces order,
\* and the first identity it reaches that is live and past both cooldowns,
\* with the mixer idle, is the one whose greeting fires first in the frame.
C31_FirstInOrderFires ==
    [][/\ InTrackerOrder
       /\ FirstCandidate => fired' = <<tracked_faces[idx].id>>]_vars

\* C31 (amended): the same, unless loading or starting the clip for that
\* identity fails, in which case speak returns False, nothing fires for it
\* and a later identity of the frame may be the first to be greeted.
C31_FirstInOrderFiresUnlessError ==
    [][/\ InTrackerOrder
       /\ FirstCandidate =>
             \/ fired' = <<tracked_faces[idx].id>>
             \/ speak_result' = "error" /\ fired' = <<>>]_vars

\* C31 witness: both identities were live and past both cooldowns in the
\* frame; the first in the list was greeted and the attempt for the second
\* found the mixer busy.
C31_Witness ==
    /\ pc = "greet"
    /\ idx = 3
    /\ Len(tracked_faces) = 2
    /\ fired = <<tracked_faces[1].id>>
    /\ speak_result = "busy"
    /\ tracked_faces[2].last_greeting_time = 0
    /\ tracked_faces[1].last_greeting_time = current_time

\* the rectangle of a face
RectOf(face) == [x |-> face.x, y |-> face.y, w |-> face.w, h |-> face.h]

\* C32: a call of update_tracked_faces leaves every identity it keeps with
\* its id, last_greeting_time and encounter_count; a matched identity has
\* frames_missing 0, the rectangle of a detection of the frame and the centre
\* of that rectangle; an unmatched identity that is kept differs from before
\* only by frames_missing, which is one more. An identity that is not kept
\* was unmatched and has reached max_missing_frames.
C32_MatchFrame ==
    [][TrackStep =>
          \A j \in 1..Len(tracked_faces) :
              LET f == tracked_faces[j]
                  matched == \E i \in 1..Len(matched_indices') :
                                 matched_indices'[i] = j
                  kept == {k \in 1..Len(tracked_faces') :
                              tracked_faces'[k].id = f.id}
              IN  IF kept = {}
                  THEN ~matched /\ f.frames_missing + 1 >= max_missing_frames
                  ELSE \A k \in kept :
                      LET g == tracked_faces'[k]
                      IN  /\ g.last_greeting_time = f.last_greeting_time
                          /\ g.encounter_count = f.encounter_count
                          /\ IF matched
                             THEN /\ g.frames_missing = 0
                                  /\ \E i \in 1..Len(detected') :
                                         RectOf(g) = detected'[i]
                                  /\ g.centerX = g.x + (g.w \div 2)
                                  /\ g.centerY = g.y + (g.h \div 2)
                             ELSE g = [f EXCEPT !.frames_missing =
                                                    f.frames_missing + 1]]_vars

\* C32 witness: the first identity, greeted earlier, has been matched by a
\* detection that moved it from x = 0 to x = 60 and keeps its greeting time;
\* the second, seen in the frame before, was not matched and is kept with
\* frames_missing 1.
C32_Witness ==
    /\ pc = "greet"
    /\ idx = 1
    /\ detected = <<Mid>>
    /\ photos = <<>>
    /\ Len(tracked_faces) = 2
    /\ tracked_faces[1].x = 60
    /\ tracked_faces[1].frames_missing = 0
    /\ tracked_faces[1].last_greeting_time > 0
    /\ tracked_faces[2].frames_missing = 1

\* C33: in sequential mode a greeting that fires for encounter number n (the
\* face's encounter_count after the increment) plays the clip registered for
\* n if there is one; otherwise the default clip if its file exists;
\* otherwise a language clip.
C33_SequentialFallback ==
    [][(GreetingFires /\ use_sequential_greetings) =>
          LET n == tracked_faces'[idx].encounter_count
          IN  /\ n = tracked_faces[idx].encounter_count + 1
              /\ played' = IF n \in greeting_files THEN EncounterClip(n)
                           ELSE IF default_greeting_file \in files_present
                                THEN DefaultClip
                                ELSE LanguageClip]_vars

\* C33 witness: with a clip registered for encounter 2 only and the default
\* clip on disk, the first encounter of a face has played the default clip.
C33_Witness ==
    /\ pc = "greet"
    /\ use_sequential_greetings
    /\ greeting_files = {2}
    /\ default_greeting_file \in files_present
    /\ Len(fired) = 1
    /\ \E i \in 1..Len(tracked_faces) :
          /\ tracked_faces[i].id = fired[1]
          /\ tracked_faces[i].encounter_count = 1
    /\ played = DefaultClip

\* the program was started with --custom-greeting
CustomMode == use_custom_greeting /\ ~use_sequential_greetings

\* C34 (as stated): in custom mode every greeting that fires plays the custom
\* clip.
C34_CustomClipOnly ==
    [][(GreetingFires /\ CustomMode) => played' = CustomClip]_vars

\* C34 (amended): in custom mode a greeting that fires plays the custom clip
\* when its file exists at that moment, and a language clip when it does
\* not; it never plays the default clip or the clip of an encounter.
C34_CustomClipWhenPresent ==
    [][(GreetingFires /\ CustomMode) =>
          played' = IF custom_greeting_file \in files_present
                    THEN CustomClip ELSE LanguageClip]_vars

\* C34 witness: in custom mode, with the default clip on disk as well, a
\* greeting has fired and played the custom clip.
C34_Witness ==
    /\ pc = "greet"
    /\ CustomMode
    /\ files_present = ClipFiles
    /\ Len(fired) = 1
    /\ played = CustomClip

\* C35: after the process has been started again, a tracked identity for
\* which no greeting has fired in the new session has a ledger count of 0:
\* it does not carry a count that was persisted by the session before.
C35_FreshCountAfterRestart ==
    restarts >= 1 =>
        \A i \in 1..Len(tracked_faces) :
            tracked_faces[i].id \notin DOMAIN greeted_at =>
                Get(face_greeting_counts, tracked_faces[i].id) = 0

\* C36: last_global_greeting_time is at least the last_greeting_time of every
\* tracked identity; it never decreases, the date check of a new day
\* included; and the last_greeting_time of an identity that stays tracked
\* never decreases.
C36_TimestampOrder ==
    [][/\ \A j \in 1..Len(tracked_faces') :
             tracked_faces'[j].last_greeting_time <= last_global_greeting_time'
       /\ last_global_greeting_time' >= last_global_greeting_time
       /\ \A i \in 1..Len(tracked_faces) : \A j \in 1..Len(tracked_faces') :
             tracked_faces'[j].id = tracked_faces[i].id =>
                 tracked_faces'[j].last_greeting_time
                     >= tracked_faces[i].last_greeting_time]_vars

\* C36 witness: after a greeting on day 1 and the rollover to day 2, the
\* global timestamp is still that of the greeting and closes the global gate
\* for the identities created on day 2, which have not been greeted.
C36_Witness ==
    /\ pc = "greet"
    /\ today = 2
    /\ Len(tracked_faces) = 2
    /\ \A i \in 1..2 : tracked_faces[i].last_greeting_time = 0
    /\ last_global_greeting_time > 0
    /\ global_cooldown_active

\* C37: no two identities in tracked_faces have the same id, on the day the
\* process started and after a rollover has reset the id counter.
C37_TrackedIdsDistinct ==
    \A i, j \in 1..Len(tracked_faces) :
        i # j => tracked_faces[i].id # tracked_faces[j].id

\* C37 witness: ids 1 to 3 were given out on day 1; after the rollover the
\* counter started again and the two identities tracked on day 2 are 1 and 2.
C37_Witness ==
    /\ today = 2
    /\ ids_assigned = {1, 2, 3}
    /\ next_id = 3
    /\ Len(tracked_faces) = 2
    /\ tracked_faces[1].id = 1
    /\ tracked_faces[2].id = 2

====
